---- MODULE Spec2Model ----
(***************************************************************************)
(* gpdcli: the service-account token manager (src/src/oauth2.rs) and the   *)
(* four-step publishing run of main (src/src/main.rs).                     *)
(*                                                                         *)
(* Time is in whole seconds.  Strings that the code inspects character by  *)
(* character (the access token) are sequences of one-character strings.    *)
(* Option<T> is a sequence of length at most one; Result<T> is a record    *)
(* [ok, val].  A response body is the JSON document it holds, a record     *)
(* keyed by the names used on the wire.                                    *)
(***************************************************************************)
EXTENDS Integers, Sequences, FiniteSets, TLC

\* ------------------------------------------------------------------ bounds
\* steps the clock takes
MaxTicks == 2
\* calls to token() that the concurrent tasks make altogether
MaxCalls == 3
\* tasks calling token() on one manager concurrently
NumTasks == 2
\* largest artifact length and largest number of bytes the file delivers
MaxSize == 3

\* ---------------------------------------------------------------- constants
\* time::Duration::minutes(5), in seconds
Margin == 300
\* Duration::from_secs(3600)
JwtLifetime == 3600

\* ------------------------------------------------------------- environment
\* the caller that is main, and the tasks sharing one manager concurrently
Main == 0
Tasks == 1..NumTasks
Callers == Tasks \cup {Main}

\* steps of the clock, and the time at which it stops
Delays == {300}
Horizon == MaxTicks * 300
\* expires_in values a token endpoint answers with (an i64)
ExpiresInValues == {-1, 600, 601}
\* access_token values a token endpoint answers with
RawTokens == {<<"a">>, <<"b", ".", "c", ".", ".">>}
\* HTTP statuses the servers answer with
TokenStatuses == {200, 403}
Statuses == {200, 304, 403}
\* ids and bodies a publishing endpoint answers with
PubDocs ==
    {[id |-> "e1", expiryTimeSeconds |-> "123"],
     [id |-> "e2", expiryTimeSeconds |-> "456"],
     [error |-> "invalid"]}

None == <<>>
Some(x) == <<x>>
Ok(v) == [ok |-> TRUE, val |-> v]
Err(e) == [ok |-> FALSE, val |-> e]
Unit == [unit |-> TRUE]

\* what an awaited request comes back with: the transport fails, or a
\* response arrives whose body is unreadable or holds a JSON document
TransportFailure == [kind |-> "transport"]
Response(s, b) == [kind |-> "response", status |-> s, body |-> b]
Unreadable == [readable |-> FALSE]
Json(doc) == [readable |-> TRUE, doc |-> doc]

TokenDocs ==
    {[access_token |-> a, expires_in |-> e] : a \in RawTokens, e \in ExpiresInValues}
        \cup {[error |-> "invalid_grant"]}
TokenOutcomes ==
    {TransportFailure}
        \cup {Response(s, Unreadable) : s \in TokenStatuses}
        \cup {Response(s, Json(d)) : s \in TokenStatuses, d \in TokenDocs}

\* reqwest::Error as far as callers can tell errors apart: what failed and
\* the status it carries (0 when it carries none)
Error(k, s) == [kind |-> k, status |-> s]

PubOutcomes ==
    {TransportFailure}
        \cup {Response(s, Unreadable) : s \in Statuses}
        \cup {Response(s, Json(d)) : s \in Statuses, d \in PubDocs}

VARIABLES
    now,          \* the wall clock
    key_ok,       \* whether service_account.private_key is a usable RSA PEM
    token,        \* Oauth2TokenManager.token: Option<Oauth2Token>
    guard,        \* the holder of the Mutex, if any
    waiters,      \* callers queued in lock().await, first come first served
    tpc,          \* where each caller is inside token()
    tres,         \* what token() returned to each caller
    sent,         \* token-endpoint requests issued by each caller's current call
    inflight,     \* token-endpoint requests sent and not yet answered
    answered,     \* what the request of each caller's current call came back with, if it did
    served,       \* per waiting caller: the token an exchange stored while it waited, and when
    exchanges,    \* token-endpoint requests issued so far
    calls,        \* token() calls the tasks have begun
    op,           \* the publishing operation main is in
    phase,        \* where main is inside it
    edit,         \* main's `edit`: Option<AppEdit>
    requests,     \* publishing requests issued so far, in order
    results,      \* what each finished operation returned, in order
    error,        \* the error main returned, if any
    response,     \* what the request of the operation just finished came back with
    stdout,       \* bodies printed so far
    total_size,   \* upload_bundle: the length metadata() reported
    file_left,    \* bytes the file still delivers
    delivered,    \* bytes the file has delivered to the stream
    uploaded,     \* upload_bundle: the running count
    bar,          \* the ProgressBar: [position, finished]
    stream        \* the body stream: idle, open, exhausted, failed

mgr_vars == <<now, key_ok, token, guard, waiters, tpc, tres, sent, inflight, answered, served, exchanges, calls>>
upload_vars == <<total_size, file_left, delivered, uploaded, bar, stream>>
main_vars == <<op, phase, edit, requests, results, error, response, stdout, total_size, file_left, delivered, uploaded, bar, stream>>
vars == <<now, key_ok, token, guard, waiters, tpc, tres, sent, inflight, answered, served, exchanges, calls,
          op, phase, edit, requests, results, error, response, stdout, total_size, file_left, delivered, uploaded, bar, stream>>

\* ------------------------------------------------------------ oauth2.rs
\* TrimEndMatches taking off one '.' only
TrimEndOnce(s) ==
    IF s # <<>> /\ s[Len(s)] = "." THEN SubSeq(s, 1, Len(s) - 1) ELSE s

\* str::trim_end_matches('.')
RECURSIVE TrimEndMatches(_)
TrimEndMatches(s) ==
    IF s # <<>> /\ s[Len(s)] = "."
    THEN TrimEndMatches(SubSeq(s, 1, Len(s) - 1))
    ELSE s

\* JwtNew with the lifetime left out of exp
JwtNewNoLifetime(n) == [iat |-> n, exp |-> n]

\* Jwt::new: the claims that depend on the clock
JwtNew(n) == [iat |-> n, exp |-> n + JwtLifetime]

\* serde's decoding of a body into TokenResponse
DecodeTokenResponse(body) ==
    IF body.readable /\ {"access_token", "expires_in"} \subseteq DOMAIN body.doc
    THEN Some([access_token |-> body.doc.access_token, expires_in |-> body.doc.expires_in])
    ELSE None

\* Fresh with the comparison the wrong way round
FreshReversed(t, n) == t # None /\ t[1].expires_at - n < Margin

\* Fresh with >= for >
FreshAtLeast(t, n) == t # None /\ t[1].expires_at - n >= Margin

\* Fresh without the margin: any token not yet expired
FreshNoMargin(t, n) == t # None /\ t[1].expires_at - n > 0

\* the test of token(): a cached token with more than the margin left
Fresh(t, n) == t # None /\ t[1].expires_at - n > Margin

\* request_access_token once the request is answered with `outcome` at time n
RequestAccessToken(outcome, n) ==
    IF outcome.kind = "transport"
    THEN Err(Error("transport", 0))
    ELSE LET token_res == DecodeTokenResponse(outcome.body) IN
         IF token_res = None
         THEN Err(Error("decode", 0))
         ELSE Ok([access_token |-> TrimEndMatches(token_res[1].access_token),
                  expires_at |-> n + token_res[1].expires_in])

\* CanLock when the guard is dropped before the await
CanLockUnguarded(c) == waiters # <<>> /\ Head(waiters) = c

\* Mutex::lock resolves for the first waiter when nobody holds the guard
CanLock(c) == guard = None /\ waiters # <<>> /\ Head(waiters) = c

\* token() is entered: the caller queues for the lock
TokenCall(c) ==
    /\ tpc[c] = "idle"
    /\ tpc' = [tpc EXCEPT ![c] = "waiting"]
    /\ waiters' = Append(waiters, c)
    /\ tres' = [tres EXCEPT ![c] = None]
    /\ sent' = [sent EXCEPT ![c] = 0]
    /\ answered' = [answered EXCEPT ![c] = None]
    /\ UNCHANGED <<now, key_ok, token, guard, inflight, served, exchanges>>

\* the lock is taken, the cached token is fresh: it is cloned and returned,
\* and the guard is dropped on return
TokenHit(c) ==
    /\ tpc[c] = "waiting"
    /\ CanLock(c)
    /\ Fresh(token, now)
    /\ waiters' = Tail(waiters)
    /\ tres' = [tres EXCEPT ![c] = Some(Ok(token[1]))]
    /\ tpc' = [tpc EXCEPT ![c] = "returned"]
    /\ served' = [served EXCEPT ![c] = None]
    /\ UNCHANGED <<now, key_ok, token, guard, sent, inflight, answered, exchanges, calls>>

\* the lock is taken, there is no fresh token: the assertion is built and
\* signed and the request is sent; the guard is held across the await
TokenMiss(c) ==
    /\ tpc[c] = "waiting"
    /\ CanLock(c)
    /\ ~Fresh(token, now)
    /\ key_ok
    /\ waiters' = Tail(waiters)
    /\ guard' = Some(c)
    /\ inflight' = inflight \cup {[caller |-> c, assertion |-> JwtNew(now)]}
    /\ exchanges' = exchanges + 1
    /\ sent' = [sent EXCEPT ![c] = @ + 1]
    /\ tpc' = [tpc EXCEPT ![c] = "exchanging"]
    /\ served' = [served EXCEPT ![c] = None]
    /\ UNCHANGED <<now, key_ok, token, tres, answered, calls>>

\* the lock is taken, there is no fresh token, and Jwt::encode unwraps the
\* failure to read the key: the caller panics, unwinding drops the guard
TokenPanic(c) ==
    /\ tpc[c] = "waiting"
    /\ CanLock(c)
    /\ ~Fresh(token, now)
    /\ ~key_ok
    /\ waiters' = Tail(waiters)
    /\ tpc' = [tpc EXCEPT ![c] = "panicked"]
    /\ served' = [served EXCEPT ![c] = None]
    /\ UNCHANGED <<now, key_ok, token, guard, tres, sent, inflight, answered, exchanges, calls>>

\* Stored when a failure clears the cache
StoredOrCleared(old, new_token) ==
    IF new_token.ok THEN Some(new_token.val) ELSE None

\* Stored when the new token is returned without being kept
StoredNever(old, new_token) == old

\* the cache after request_access_token returned new_token: `?` leaves
\* before the assignment on Err
Stored(old, new_token) ==
    IF new_token.ok THEN Some(new_token.val) ELSE old

\* the request is answered: on Ok the token is stored and returned, on Err
\* the error is returned by `?`; either way the guard is dropped
TokenRecv(c) ==
    /\ tpc[c] = "exchanging"
    /\ \E outcome \in TokenOutcomes :
         LET new_token == RequestAccessToken(outcome, now) IN
         /\ token' = Stored(token, new_token)
         /\ tres' = [tres EXCEPT ![c] = Some(new_token)]
         /\ answered' = [answered EXCEPT ![c] = Some(outcome)]
         /\ served' = [w \in Callers |->
                          IF new_token.ok /\ \E i \in 1..Len(waiters) : waiters[i] = w
                          THEN Some([token |-> new_token.val, at |-> now])
                          ELSE served[w]]
    /\ inflight' = {r \in inflight : r.caller # c}
    /\ guard' = None
    /\ tpc' = [tpc EXCEPT ![c] = "returned"]
    /\ UNCHANGED <<now, key_ok, waiters, sent, exchanges, calls>>

\* ------------------------------------------------------------ the clock
Tick ==
    /\ \E d \in Delays : now + d <= Horizon /\ now' = now + d
    /\ UNCHANGED <<key_ok, token, guard, waiters, tpc, tres, sent, inflight, answered, served, exchanges, calls>>
    /\ UNCHANGED main_vars

\* ------------------------------------------- tasks sharing one manager
TaskCall(c) ==
    /\ calls < MaxCalls
    /\ calls' = calls + 1
    /\ TokenCall(c)

\* the task takes the result and is ready to call again
TaskResume(c) ==
    /\ tpc[c] = "returned"
    /\ tpc' = [tpc EXCEPT ![c] = "idle"]
    /\ tres' = [tres EXCEPT ![c] = None]
    /\ sent' = [sent EXCEPT ![c] = 0]
    /\ answered' = [answered EXCEPT ![c] = None]
    /\ UNCHANGED <<now, key_ok, token, guard, waiters, inflight, served, exchanges, calls>>

\* ------------------------------------------------------------ main.rs
Ops == <<"create_edit", "upload_bundle", "update_track", "commit_edit">>

OpIndex(o) == CHOOSE i \in 1..Len(Ops) : Ops[i] = o

\* IsErrorStatus that lets 4xx through
IsServerError(s) == s >= 500 /\ s <= 599

\* Response::error_for_status_ref: an error for a 4xx or 5xx status
IsErrorStatus(s) == s >= 400 /\ s <= 599

\* serde's decoding of a body into AppEdit (rename_all = "camelCase")
DecodeAppEdit(body) ==
    IF body.readable /\ {"id", "expiryTimeSeconds"} \subseteq DOMAIN body.doc
    THEN Some([id |-> body.doc.id, expiry_time_seconds |-> body.doc.expiryTimeSeconds])
    ELSE None

\* what `println!("{}", res.text().await?)` prints for an error status
Printed(outcome) ==
    IF outcome.kind = "response" /\ IsErrorStatus(outcome.status) /\ outcome.body.readable
    THEN <<outcome.body.doc>>
    ELSE <<>>

\* the tail shared by the four operations, from `.send().await?` on:
\* what operation o returns when its request comes back with `outcome`
Finish(o, outcome) ==
    IF outcome.kind = "transport"
    THEN Err(Error("transport", 0))
    ELSE IF IsErrorStatus(outcome.status)
    THEN IF outcome.body.readable
         THEN Err(Error("status", outcome.status))
         ELSE Err(Error("body", 0))
    ELSE IF o \in {"create_edit", "commit_edit"}
    THEN LET e == DecodeAppEdit(outcome.body) IN
         IF e = None THEN Err(Error("decode", 0)) ELSE Ok(e[1])
    ELSE Ok(Unit)

\* PathEditId taking the other field of the edit
PathEditIdWrongField(o, e) ==
    IF o = "create_edit" THEN None ELSE Some(e[1].expiry_time_seconds)

\* PathEditId when a refresh of the token loses the edit
PathEditIdLostOnRefresh(o, e) ==
    IF o = "create_edit" \/ sent[Main] = 1 THEN None ELSE Some(e[1].id)

\* the edit id an operation puts in its path: none for create_edit,
\* edit.id for the others
PathEditId(o, e) == IF o = "create_edit" THEN None ELSE Some(e[1].id)

\* Return with the `?` after upload_bundle left out
ReturnUploadUnchecked(r) ==
    /\ results' = Append(results, r)
    /\ IF r.ok \/ op = "upload_bundle"
       THEN /\ edit' = IF op = "create_edit" THEN Some(r.val) ELSE edit
            /\ error' = error
            /\ IF op = "commit_edit"
               THEN op' = op /\ phase' = "ok"
               ELSE op' = Ops[OpIndex(op) + 1] /\ phase' = "begin"
       ELSE /\ error' = Some(r.val)
            /\ phase' = "err"
            /\ UNCHANGED <<op, edit>>

\* Return with a failed operation tried again
ReturnRetrying(r) ==
    /\ results' = Append(results, r)
    /\ IF r.ok
       THEN /\ edit' = IF op = "create_edit" THEN Some(r.val) ELSE edit
            /\ IF op = "commit_edit"
               THEN op' = op /\ phase' = "ok"
               ELSE op' = Ops[OpIndex(op) + 1] /\ phase' = "begin"
       ELSE /\ phase' = "begin"
            /\ UNCHANGED <<op, edit>>
    /\ error' = error

\* main's `?` on what an operation returned: on Ok it goes on to the next
\* operation (create_edit's value becomes `edit`), on Err it returns the error
Return(r) ==
    /\ results' = Append(results, r)
    /\ IF r.ok
       THEN /\ edit' = IF op = "create_edit" THEN Some(r.val) ELSE edit
            /\ error' = error
            /\ IF op = "commit_edit"
               THEN op' = op /\ phase' = "ok"
               ELSE op' = Ops[OpIndex(op) + 1] /\ phase' = "begin"
       ELSE /\ error' = Some(r.val)
            /\ phase' = "err"
            /\ UNCHANGED <<op, edit>>

\* upload_bundle returns: its locals are gone
UploadReturn ==
    /\ total_size' = 0
    /\ file_left' = 0
    /\ delivered' = 0
    /\ uploaded' = 0
    /\ bar' = [position |-> 0, finished |-> FALSE]
    /\ stream' = "idle"

\* an operation is entered; upload_bundle first reads the length, sets up
\* the counter, the bar and the (not yet polled) stream; then token() is
\* called
OpBegin ==
    /\ phase = "begin"
    /\ phase' = "token"
    /\ response' = None
    /\ IF op = "upload_bundle"
       THEN /\ total_size' \in 0..MaxSize
            /\ file_left' \in 0..MaxSize
            /\ delivered' = 0
            /\ uploaded' = 0
            /\ bar' = [position |-> 0, finished |-> FALSE]
            /\ stream' = "idle"
       ELSE UNCHANGED upload_vars
    /\ TokenCall(Main)
    /\ UNCHANGED <<calls, op, edit, requests, results, error, stdout>>

\* token() returned Err: `?` returns it from the operation
OpTokenErr ==
    /\ phase = "token"
    /\ tpc[Main] = "returned"
    /\ ~tres[Main][1].ok
    /\ Return(tres[Main][1])
    /\ IF op = "upload_bundle" THEN UploadReturn ELSE UNCHANGED upload_vars
    /\ tpc' = [tpc EXCEPT ![Main] = "idle"]
    /\ UNCHANGED <<now, key_ok, token, guard, waiters, tres, sent, inflight, answered, served, exchanges, calls>>
    /\ UNCHANGED <<requests, response, stdout>>

\* token() panicked: the panic unwinds through main
OpTokenPanic ==
    /\ phase = "token"
    /\ tpc[Main] = "panicked"
    /\ phase' = "panic"
    /\ UNCHANGED mgr_vars
    /\ UNCHANGED <<op, edit, requests, results, error, response, stdout>>
    /\ UNCHANGED upload_vars

\* Bearer when the token of the first request is kept for the later ones
BearerOfFirst(t) ==
    IF requests = <<>> THEN t.access_token ELSE requests[1].bearer

\* bearer_auth's argument: the access_token of what token() just returned
Bearer(t) == t.access_token

\* token() returned Ok: the request is built with its access_token and sent
OpSend ==
    /\ phase = "token"
    /\ tpc[Main] = "returned"
    /\ tres[Main][1].ok
    /\ requests' = Append(requests,
                          [op |-> op,
                           edit_id |-> PathEditId(op, edit),
                           bearer |-> Bearer(tres[Main][1].val)])
    /\ phase' = "http"
    /\ stream' = IF op = "upload_bundle" THEN "open" ELSE stream
    /\ tpc' = [tpc EXCEPT ![Main] = "idle"]
    /\ tres' = [tres EXCEPT ![Main] = None]
    /\ UNCHANGED <<now, key_ok, token, guard, waiters, sent, inflight, answered, served, exchanges, calls>>
    /\ UNCHANGED <<op, edit, results, error, response, stdout>>
    /\ UNCHANGED <<total_size, file_left, delivered, uploaded, bar>>

\* Advance without the min
AdvanceUnclamped(total, up, len) == up + len

\* the progress arithmetic of one chunk of len bytes:
\* total_size.min(uploaded + len)
Advance(total, up, len) == IF up + len < total THEN up + len ELSE total

\* the body stream is polled and the file delivers a chunk of len bytes
ReadChunk ==
    /\ op = "upload_bundle" /\ phase = "http" /\ stream = "open"
    /\ \E len \in 1..file_left :
         LET new == Advance(total_size, uploaded, len) IN
         /\ file_left' = file_left - len
         /\ delivered' = delivered + len
         /\ uploaded' = new
         /\ bar' = [position |-> new, finished |-> bar.finished \/ new >= total_size]
    /\ UNCHANGED <<total_size, stream>>
    /\ UNCHANGED mgr_vars
    /\ UNCHANGED <<op, phase, edit, requests, results, error, response, stdout>>

\* the body stream is polled and the file is at its end
ReadEof ==
    /\ op = "upload_bundle" /\ phase = "http" /\ stream = "open"
    /\ file_left = 0
    /\ stream' = "exhausted"
    /\ UNCHANGED <<total_size, file_left, delivered, uploaded, bar>>
    /\ UNCHANGED mgr_vars
    /\ UNCHANGED <<op, phase, edit, requests, results, error, response, stdout>>

\* the body stream is polled and the read fails: the Err chunk is passed
\* on with the counter and the bar untouched
ReadErr ==
    /\ op = "upload_bundle" /\ phase = "http" /\ stream = "open"
    /\ stream' = "failed"
    /\ UNCHANGED <<total_size, file_left, delivered, uploaded, bar>>
    /\ UNCHANGED mgr_vars
    /\ UNCHANGED <<op, phase, edit, requests, results, error, response, stdout>>

\* the request fails with the read error of its body: `.send().await?`
HttpBodyErr ==
    /\ op = "upload_bundle" /\ phase = "http" /\ stream = "failed"
    /\ Return(Err(Error("io", 0)))
    /\ UploadReturn
    /\ UNCHANGED mgr_vars
    /\ UNCHANGED <<requests, response, stdout>>

\* the request comes back and the operation returns
HttpDone ==
    /\ phase = "http"
    /\ stream # "failed"
    /\ \E outcome \in PubOutcomes :
         /\ response' = Some(outcome)
         /\ stdout' = stdout \o Printed(outcome)
         /\ Return(Finish(op, outcome))
    /\ IF op = "upload_bundle" THEN UploadReturn ELSE UNCHANGED upload_vars
    /\ UNCHANGED <<requests>>
    /\ UNCHANGED mgr_vars

\* ------------------------------------------------------- specifications
MgrInit ==
    /\ now = 0
    /\ key_ok \in BOOLEAN
    /\ token = None
    /\ guard = None
    /\ waiters = <<>>
    /\ tpc = [c \in Callers |-> "idle"]
    /\ tres = [c \in Callers |-> None]
    /\ sent = [c \in Callers |-> 0]
    /\ inflight = {}
    /\ answered = [c \in Callers |-> None]
    /\ served = [c \in Callers |-> None]
    /\ exchanges = 0
    /\ calls = 0

MainInit ==
    /\ op = "create_edit"
    /\ phase = "begin"
    /\ edit = None
    /\ requests = <<>>
    /\ results = <<>>
    /\ error = None
    /\ response = None
    /\ stdout = <<>>
    /\ total_size = 0
    /\ file_left = 0
    /\ delivered = 0
    /\ uploaded = 0
    /\ bar = [position |-> 0, finished |-> FALSE]
    /\ stream = "idle"

Init == MgrInit /\ MainInit

\* main: one publishing run, the only caller of the manager
Next ==
    \/ OpBegin
    \/ TokenHit(Main) /\ UNCHANGED main_vars
    \/ TokenMiss(Main) /\ UNCHANGED main_vars
    \/ TokenPanic(Main) /\ UNCHANGED main_vars
    \/ TokenRecv(Main) /\ UNCHANGED main_vars
    \/ OpTokenErr
    \/ OpTokenPanic
    \/ OpSend
    \/ ReadChunk
    \/ ReadEof
    \/ ReadErr
    \/ HttpBodyErr
    \/ HttpDone
    \/ Tick

Spec == Init /\ [][Next]_vars

\* one manager shared by concurrent tasks
MgrNext ==
    \/ \E c \in Tasks : TaskCall(c) /\ UNCHANGED main_vars
    \/ \E c \in Tasks : TokenHit(c) /\ UNCHANGED main_vars
    \/ \E c \in Tasks : TokenMiss(c) /\ UNCHANGED main_vars
    \/ \E c \in Tasks : TokenPanic(c) /\ UNCHANGED main_vars
    \/ \E c \in Tasks : TokenRecv(c) /\ UNCHANGED main_vars
    \/ \E c \in Tasks : TaskResume(c) /\ UNCHANGED main_vars
    \/ Tick

SpecMgr == Init /\ [][MgrNext]_vars

\* the shared manager under a runtime that keeps polling every task that can
\* make progress and a token endpoint that answers (or fails) every request:
\* the first waiter gets the free lock, a sent request comes back
SpecMgrFair ==
    /\ SpecMgr
    /\ \A c \in Tasks :
         WF_vars((TokenHit(c) \/ TokenMiss(c) \/ TokenPanic(c)) /\ UNCHANGED main_vars)
    /\ \A c \in Tasks : WF_vars(TokenRecv(c) /\ UNCHANGED main_vars)

\* ------------------------------------------------------------ properties
\* the cache holds a token with more than five minutes left
HasFresh == token # None /\ token[1].expires_at - now > Margin

\* caller c's call to token() returns in this step
Returns(c) == tpc[c] # "returned" /\ tpc'[c] = "returned"

\* C1: a call to token() that takes the lock while the cache holds a token
\* with more than 5 minutes left returns at once with that very token,
\* issues no token-endpoint request and leaves the cache as it was.
C1_CacheHit ==
    [][\A c \in Callers :
         (tpc[c] = "waiting" /\ tpc'[c] # "waiting" /\ HasFresh)
            => /\ tpc'[c] = "returned"
               /\ tres'[c] = Some(Ok(token[1]))
               /\ token' = token
               /\ sent'[c] = 0
               /\ exchanges' = exchanges
               /\ inflight' = inflight]_vars

\* a task has been served from the cache
C1_HitReached ==
    \E c \in Tasks :
        /\ tpc[c] = "returned" /\ sent[c] = 0
        /\ tres[c] # None /\ tres[c][1].ok
        /\ token = Some(tres[c][1].val)

\* C2 as stated: a call that finds no token with more than 5 minutes left
\* returns having made exactly one exchange and with the cache holding the
\* token it obtained.
C2_RefreshAlwaysReplaces ==
    [][\A c \in Callers :
         (Returns(c) /\ ~HasFresh)
            => /\ sent'[c] = 1
               /\ tres'[c][1].ok
               /\ token' = Some(tres'[c][1].val)]_vars

\* C2 (amended): a call that takes the lock while the cache is empty or its
\* token has 5 minutes or less left (exactly 5 minutes included) sends
\* exactly one token-endpoint request when the assertion can be signed and
\* none when it cannot (the call then panics); when the request is answered
\* the call returns without a second request, the cache holding the new
\* token if the exchange succeeded and what it held before if it failed.
C2_Refresh ==
    [][\A c \in Callers :
         /\ (tpc[c] = "waiting" /\ tpc'[c] # "waiting" /\ ~HasFresh)
               => /\ token' = token
                  /\ IF key_ok
                     THEN /\ tpc'[c] = "exchanging"
                          /\ sent'[c] = 1
                          /\ exchanges' = exchanges + 1
                          /\ Cardinality({r \in inflight' : r.caller = c}) = 1
                     ELSE /\ tpc'[c] = "panicked"
                          /\ sent'[c] = 0
                          /\ exchanges' = exchanges
                          /\ inflight' = inflight
         /\ (tpc[c] = "exchanging" /\ tpc'[c] # "exchanging")
               => /\ tpc'[c] = "returned"
                  /\ sent'[c] = 1
                  /\ exchanges' = exchanges
                  /\ token' = IF tres'[c][1].ok THEN Some(tres'[c][1].val) ELSE token]_vars

\* a task's second exchange has replaced a token that had run down
C2_RefreshReached ==
    \E c \in Tasks :
        /\ tpc[c] = "returned" /\ sent[c] = 1 /\ exchanges >= 2 /\ now > 0
        /\ tres[c][1].ok
        /\ token = Some(tres[c][1].val)

\* C3: at most one token-endpoint request is in flight; the caller whose
\* request it is holds the lock until its call returns, and every caller
\* that has entered token() meanwhile is queued behind it.
C3_SingleFlight ==
    /\ Cardinality(inflight) <= 1
    /\ Cardinality({c \in Callers : tpc[c] = "exchanging"}) <= 1
    /\ \A r \in inflight : tpc[r.caller] = "exchanging"
    /\ \A c \in Callers :
         /\ tpc[c] = "exchanging" =>
              guard = Some(c) /\ \E r \in inflight : r.caller = c
         /\ tpc[c] = "waiting" <=> \E i \in 1..Len(waiters) : waiters[i] = c
         /\ tpc[c] # "exchanging" => guard # Some(c)

\* an exchange is in flight while another task waits for the lock
C3_WaitingBehindExchange ==
    /\ inflight # {}
    /\ \E c \in Tasks : tpc[c] = "waiting"

\* C4 as stated: every token returned has more than 5 minutes left at the
\* moment it is returned.
C4_NeverNearExpired ==
    [][\A c \in Callers :
         (Returns(c) /\ tres'[c][1].ok)
            => tres'[c][1].val.expires_at - now' > Margin]_vars

\* C4 (amended): a token returned from the cache has more than 5 minutes
\* left at the moment it is returned; a token returned after an exchange
\* expires expires_in seconds after its receipt, whatever expires_in is.
C4_Returned ==
    [][\A c \in Callers :
         (Returns(c) /\ tres'[c][1].ok)
            => IF sent'[c] = 0
               THEN tres'[c][1].val.expires_at - now' > Margin
               ELSE tres'[c][1].val.expires_at - now' \in ExpiresInValues]_vars

\* a task holds a token fresh from an exchange with 5 minutes or less left
C4_NearExpiredReturned ==
    \E c \in Tasks :
        /\ tpc[c] = "returned" /\ sent[c] = 1 /\ tres[c][1].ok
        /\ tres[c][1].val.expires_at - now <= Margin

\* C8: a call whose exchange was answered with a non-2xx status has
\* returned an error, not a token.
C8_NonSuccessFails ==
    \A c \in Callers :
        (/\ tpc[c] = "returned" /\ answered[c] # None
         /\ answered[c][1].kind = "response"
         /\ ~(answered[c][1].status >= 200 /\ answered[c][1].status <= 299))
           => ~tres[c][1].ok

\* C5: the publishing requests issued so far are createEdit, uploadArtifact,
\* updateTrack, commitEdit in that order, each issued only after every
\* operation before it has returned Ok; once an operation has returned an
\* error, whatever the cause, no further request is issued.
C5_StrictOrder ==
    /\ Len(requests) <= Len(Ops)
    /\ Len(results) <= Len(requests) + 1
    /\ \A i \in 1..Len(requests) :
         /\ requests[i].op = Ops[i]
         /\ Len(results) >= i - 1
         /\ \A j \in 1..(i - 1) : results[j].ok
    /\ \A k \in 1..Len(results) :
         ~results[k].ok =>
            /\ Len(results) = k
            /\ Len(requests) <= k
            /\ phase = "err"
            /\ error = Some(results[k].val)

\* the run has stopped at its third operation, after three requests
C5_FailedAtThird ==
    /\ phase = "err" /\ op = "update_track"
    /\ Len(requests) = 3 /\ Len(results) = 3
    /\ response # None

\* C6: every request after the first is issued after create_edit returned
\* Ok and carries the id of the edit that create_edit returned; main's edit
\* is that edit from then on.
C6_EditIdThreaded ==
    /\ \A i \in 2..Len(requests) :
         /\ results[1].ok
         /\ requests[i].edit_id = Some(results[1].val.id)
    /\ Len(requests) >= 1 => requests[1].edit_id = None
    /\ edit = IF results # <<>> /\ results[1].ok THEN Some(results[1].val) ELSE None

\* the run is complete, on edit e2, though commit_edit's response named e1
C6_CommittedOnE2 ==
    /\ phase = "ok" /\ Len(requests) = 4
    /\ requests[4].edit_id = Some("e2")
    /\ results[4].val.id = "e1"

\* the body an error value carries, if it carries one
ErrorBody(e) == IF "body" \in DOMAIN e THEN Some(e.body) ELSE None

C9_KeyErrorReturned ==
    (~key_ok /\ tpc[Main] \notin {"idle", "waiting"})
       => tpc[Main] = "returned" /\ ~tres[Main][1].ok

\* the request body of upload_bundle is being streamed
InUpload == op = "upload_bundle" /\ phase = "http"

\* C10 as stated: the position never decreases, never exceeds total_size
\* and is total_size once the stream is exhausted.
C10_ReachesTotal ==
    [][InUpload' =>
         /\ bar'.position <= total_size'
         /\ InUpload => bar'.position >= bar.position
         /\ stream' = "exhausted" => bar'.position = total_size']_vars

\* C10 (amended): the position never decreases and never exceeds
\* total_size; it is the number of bytes read so far or total_size,
\* whichever is smaller, so once the stream is exhausted it is total_size
\* exactly when the chunks read add up to at least total_size.
C10_Progress ==
    [][InUpload' =>
         /\ bar'.position <= total_size'
         /\ InUpload => bar'.position >= bar.position
         /\ uploaded' = bar'.position
         /\ bar'.position = IF delivered' < total_size' THEN delivered' ELSE total_size'
         /\ (stream' = "exhausted" /\ delivered' >= total_size')
               => bar'.position = total_size']_vars

\* the stream is exhausted after delivering more bytes than total_size
C10_ClampedAtTotal ==
    /\ InUpload /\ stream = "exhausted"
    /\ total_size > 0 /\ delivered > total_size
    /\ bar.position = total_size

\* the token an exchange stored while c waited was valid for more than the
\* margin when it was received
ServedValid(c) ==
    /\ served[c] # None
    /\ served[c][1].token.expires_at - served[c][1].at > Margin

\* c, which was waiting, takes the lock in this step
TakesLock(c) == tpc[c] = "waiting" /\ tpc'[c] # "waiting"

\* C11 as stated: a caller that waited while an exchange succeeded with a
\* token valid for more than 5 minutes returns that token without an
\* exchange of its own, so that one exchange serves all the concurrent calls.
C11_AlwaysCoalesce ==
    [][\A c \in Callers :
         (TakesLock(c) /\ ServedValid(c))
            => /\ tpc'[c] = "returned"
               /\ tres'[c] = Some(Ok(served[c][1].token))
               /\ sent'[c] = 0
               /\ exchanges' = exchanges]_vars

\* C11 (amended): a caller that waited while an exchange succeeded finds the
\* token of that exchange in the cache when it gets the lock; it returns that
\* token without an exchange of its own when the token still has more than
\* 5 minutes left at that moment, and otherwise starts an exchange of its own.
C11_CoalesceWhileFresh ==
    [][\A c \in Callers :
         (TakesLock(c) /\ served[c] # None)
            => /\ token = Some(served[c][1].token)
               /\ IF served[c][1].token.expires_at - now > Margin
                  THEN /\ tpc'[c] = "returned"
                       /\ tres'[c] = Some(Ok(served[c][1].token))
                       /\ sent'[c] = 0
                       /\ exchanges' = exchanges
                  ELSE /\ tpc'[c] = "exchanging"
                       /\ sent'[c] = 1
                       /\ exchanges' = exchanges + 1]_vars

\* two tasks called together on an empty cache and both hold the token of the
\* only exchange made
C11_Coalesced ==
    /\ exchanges = 1 /\ calls = NumTasks
    /\ \A c \in Tasks : tpc[c] = "returned" /\ tres[c][1].ok
    /\ \E c \in Tasks : sent[c] = 0
    /\ \A c, d \in Tasks : tres[c] = tres[d]

\* C12: the publishing requests go out in strictly increasing order of
\* operation, so each endpoint receives at most one and none is sent after a
\* later one; a failed operation is the last thing the run did and no request
\* follows it; and there were never more exchanges than calls of token(), a
\* call making at most one whether it succeeds or fails.
C12_NoRetry ==
    /\ \A i, j \in 1..Len(requests) :
         i < j => OpIndex(requests[i].op) < OpIndex(requests[j].op)
    /\ \A i \in 1..Len(results) :
         ~results[i].ok => /\ i = Len(results)
                           /\ Len(requests) <= i
                           /\ phase = "err"
    /\ sent[Main] <= 1
    /\ exchanges <= Len(results) + (IF phase \in {"token", "http"} THEN 1 ELSE 0)

\* update_track's call of token() failed after one exchange and the run is
\* over with one request to each of the first two endpoints
C12_FailedExchangeEndsRun ==
    /\ phase = "err" /\ op = "update_track"
    /\ Len(results) = 3 /\ Len(requests) = 2
    /\ sent[Main] = 1 /\ exchanges >= 2

\* C13: every assertion sent to the token endpoint was issued at the time of
\* the call and expires exactly 3600 seconds after it was issued.
C13_ExpIsIatPlusHour ==
    \A r \in inflight :
        /\ r.assertion.exp = r.assertion.iat + 3600
        /\ r.assertion.iat <= now

\* an assertion issued after the clock has advanced is on its way
C13_LateAssertion ==
    \E r \in inflight : r.assertion.iat = Horizon /\ r.assertion.exp = Horizon + 3600

\* C14: when the stream is exhausted after delivering exactly total_size
\* bytes, whatever total_size is, the bar has been finished; and the bar is
\* never finished while the counter is below total_size.
C14_FinishedAtExhaustion ==
    InUpload =>
        /\ (stream = "exhausted" /\ delivered = total_size) => bar.finished
        /\ bar.finished => uploaded >= total_size

\* token() has returned to the operation in progress
TokenReturned == phase = "token" /\ tpc[Main] = "returned"

\* C15: an operation starts by calling token(); a request is sent only by an
\* operation whose own call of token() has returned Ok, it is a request of
\* that operation and it carries the access_token that call returned; when
\* the call returns Err the operation fails with that error and sends nothing,
\* and when it panics nothing is sent either.
C15_OwnToken ==
    [][/\ (phase = "begin" /\ phase' # "begin")
            => phase' = "token" /\ tpc'[Main] = "waiting" /\ tres'[Main] = None
       /\ requests' # requests
            => /\ TokenReturned /\ tres[Main][1].ok
               /\ Len(requests') = Len(requests) + 1
               /\ SubSeq(requests', 1, Len(requests)) = requests
               /\ requests'[Len(requests')].op = op
               /\ requests'[Len(requests')].bearer = tres[Main][1].val.access_token
       /\ (TokenReturned /\ ~tres[Main][1].ok /\ phase' # phase)
            => /\ requests' = requests
               /\ phase' = "err"
               /\ results' = Append(results, tres[Main][1])
       /\ (phase = "token" /\ tpc[Main] = "panicked") => requests' = requests]_vars

\* a later request carries a token other than the first request's, and the
\* run has also ended on a failed call of token()
C15_NewTokenCarried ==
    /\ Len(requests) >= 2
    /\ requests[Len(requests)].bearer # requests[1].bearer
    /\ phase = "err" /\ Len(results) = Len(requests) + 1

\* the part of the run the publishing API and the user see: which operation
\* is in progress, the edit, the errors and what was sent and returned
\* (the stage of the operation in progress apart)
pub_vars == <<op, edit, requests, results, error>>

\* the number of operations that have returned Ok
Succeeded == Cardinality({i \in 1..Len(results) : results[i].ok})

\* where the run stands is a function of what its operations returned, with
\* no trace of how many exchanges their calls of token() made
DeterminedByResults ==
    /\ Succeeded >= Len(results) - 1
    /\ op = Ops[IF Succeeded < 4 THEN Succeeded + 1 ELSE 4]
    /\ edit = IF results # <<>> /\ results[1].ok THEN Some(results[1].val) ELSE None
    /\ (phase = "ok") <=> (Succeeded = 4)
    /\ (phase = "err") <=> (Succeeded < Len(results))
    /\ error = IF Succeeded < Len(results) THEN Some(results[Len(results)].val) ELSE None
    /\ \A i \in 1..Len(requests) :
         /\ requests[i].op = Ops[i]
         /\ requests[i].edit_id = IF i = 1 THEN None ELSE Some(results[1].val.id)

\* C16: while token() is waiting for the lock or for the token endpoint the
\* publishing run does not move; when it returns Ok, after an exchange or
\* not, the operation in progress sends its request with the token returned
\* (the one now in the cache when there was an exchange) and with the id of
\* the edit created by the first step, and nothing else of the run changes;
\* so the run with a refresh makes the calls and reaches the final state that
\* its operations' results determine, as a run without a refresh does.
C16_RefreshTransparent ==
    [][/\ tpc[Main] \in {"waiting", "exchanging"}
            => UNCHANGED pub_vars /\ phase' = phase
       /\ (TokenReturned /\ tres[Main][1].ok /\ phase' # phase)
            => /\ sent[Main] = 1 => token = Some(tres[Main][1].val)
               /\ requests' = Append(requests,
                      [op |-> op,
                       edit_id |-> IF op = "create_edit" THEN None ELSE Some(edit[1].id),
                       bearer |-> tres[Main][1].val.access_token])
               /\ phase' = "http"
               /\ UNCHANGED <<op, edit, results, error>>
       /\ DeterminedByResults']_vars

\* the run has completed although the token was refreshed between two steps:
\* the cached token had 5 minutes or less left and another took its place
C16_CompletedAcrossRefresh ==
    /\ phase = "ok" /\ Len(requests) = 4
    /\ exchanges >= 2
    /\ \E i \in 2..4 : requests[i].bearer # requests[i - 1].bearer
    /\ \A i \in 2..4 : requests[i].edit_id = Some(edit[1].id)

\* r is s without its trailing '.'s and is otherwise s
IsTrimOf(r, s) ==
    /\ Len(r) <= Len(s)
    /\ SubSeq(s, 1, Len(r)) = r
    /\ r # <<>> => r[Len(r)] # "."
    /\ \A i \in (Len(r) + 1)..Len(s) : s[i] = "."

\* C17: when a call returns Ok from an exchange, the cache holds the very
\* token it returns; the access_token of that token is the access_token of
\* the response without its trailing '.'s and otherwise unchanged, and its
\* expires_at is the time the response was received plus its expires_in.
C17_TokenFromResponse ==
    [][\A c \in Callers :
         (Returns(c) /\ sent'[c] = 1 /\ tres'[c][1].ok)
            => LET t == tres'[c][1].val
                   doc == answered'[c][1].body.doc
               IN /\ token' = Some(t)
                  /\ IsTrimOf(t.access_token, doc.access_token)
                  /\ t.expires_at = now + doc.expires_in]_vars

\* an exchange answered with "b.c.." at a later time has returned and cached
\* "b.c", expiring expires_in after the receipt
C17_TrimmedAndCached ==
    \E c \in Tasks :
        /\ tpc[c] = "returned" /\ sent[c] = 1 /\ tres[c][1].ok
        /\ answered[c][1].body.doc.access_token = <<"b", ".", "c", ".", ".">>
        /\ tres[c][1].val.access_token = <<"b", ".", "c">>
        /\ now > 0
        /\ tres[c][1].val.expires_at = now + answered[c][1].body.doc.expires_in
        /\ token = Some(tres[c][1].val)

\* C18: a call that returns Err, or panics, leaves the cache as it found it;
\* the cache changes only in the step in which a call returns Ok from an
\* exchange, and then to the token returned.
C18_FailedRefreshKeepsCache ==
    [][/\ \A c \in Callers :
            (Returns(c) /\ ~tres'[c][1].ok) => token' = token /\ sent'[c] = 1
       /\ \A c \in Callers :
            (tpc[c] # "panicked" /\ tpc'[c] = "panicked") => token' = token
       /\ token' # token
            => \E c \in Callers :
                  /\ Returns(c) /\ sent'[c] = 1 /\ tres'[c][1].ok
                  /\ token' = Some(tres'[c][1].val)]_vars

\* a refresh has failed on a cache that holds a token with 5 minutes or less
\* left, and the token is still there
C18_StaleTokenKept ==
    \E c \in Tasks :
        /\ tpc[c] = "returned" /\ sent[c] = 1 /\ ~tres[c][1].ok
        /\ token # None /\ ~HasFresh

\* C19: with the lock handed to waiters in turn and every request to the
\* token endpoint answered, every call of token() waiting for the lock
\* eventually returns.
C19_EveryCallReturns ==
    \A c \in Tasks : (tpc[c] = "waiting") ~> (tpc[c] = "returned")

====
